---- MODULE Spec2Model ----
(***************************************************************************)
(* SentinelaRF: the autonomous scan / analyse / adapt loop.                *)
(*                                                                         *)
(* The repository holds two programs with the same loop:                   *)
(*   src/app.py          the web-served loop (background thread, stop      *)
(*                       Event, SocketIO events)        variant = "app"    *)
(*   src/rf_analyzer.py  the standalone loop (main thread, time.sleep,     *)
(*                       KeyboardInterrupt)             variant = "cli"    *)
(*                                                                         *)
(* Texts are TLA+ strings read character by character; a sweep output is   *)
(* the sequence of its lines, each line the sequence of the fields that    *)
(* csv.reader splits it into (the empty line is the empty sequence).       *)
(* Frequencies are kept as exact rationals: frequency_mhz holds the        *)
(* numerator over FREQ_DEN; powers are held in 1/POWER_DEN dB.             *)
(***************************************************************************)
EXTENDS Integers, Sequences, FiniteSets, TLC

VARIABLES
    variant,        \* "app" (src/app.py) or "cli" (src/rf_analyzer.py)
    pc,             \* position of the loop
    mainpc,         \* position of app.py's main thread
    lna_gain,       \* self.lna_gain
    vga_gain,       \* self.vga_gain
    amp_enabled,    \* self.amp_enabled
    stop_event,     \* app.py: the threading.Event
    signal,         \* loop local: the observation of run_scan, or None
    description,    \* loop local
    suggestions,    \* loop local
    modulation,     \* loop local
    decoded_data,   \* loop local
    log,            \* rows appended to LOG_FILE
    events,         \* app.py: the 'new_signal' events emitted
    sweep,          \* what this cycle's sweep invocation produced
    commands,       \* the sweep commands invoked so far (their gains)
    requests,       \* the language-model requests sent so far
    notfound,       \* number of times the sweep executable was not found
    delays,         \* number of inter-cycle delays waited out in full
    stopreq,        \* an external stop request has been made
    handler,        \* app.py: handle_connect, its position and what it has read
    snapshots       \* app.py: the 'state_update' events emitted

vars == <<variant, pc, mainpc, lna_gain, vga_gain, amp_enabled, stop_event,
          signal, description, suggestions, modulation, decoded_data,
          log, events, sweep, commands, requests, notfound, delays, stopreq,
          handler, snapshots>>

(***************************************************************************)
(* Bounds of the model.                                                    *)
(***************************************************************************)
MaxSweeps == 2       \* sweep invocations explored
MaxRows == 2         \* data rows of a sweep output
MaxFragments == 3    \* fragments a suggestion text is put together from
\* clients that connect while the server runs
MaxConnects == 1

(***************************************************************************)
(* Program constants.                                                      *)
(***************************************************************************)
LNA_INIT == 16
VGA_INIT == 20
LNA_MAX == 40
VGA_MAX == 62
GAIN_MIN == 0
MIN_FIELDS == 6             \* len(row) > 6
POWER_FIELD == 7            \* row[6], 1-based
LOW_FIELD == 3              \* row[2]
HIGH_FIELD == 4             \* row[3]
WIDTH_FIELD == 5            \* row[4]
FREQ_DEN == 2000000         \* (lo + hi) / 2 / 1_000_000
POWER_DEN == 100            \* powers in hundredths of a dB
MAX_POWER_INIT == -99900    \* max_power = -999.0

None == [none |-> TRUE]

(***************************************************************************)
(* Characters.                                                             *)
(***************************************************************************)
Ch(s, i) == SubSeq(s, i, i)

DigitValue == [c \in {"0", "1", "2", "3", "4", "5", "6", "7", "8", "9"} |->
                 CASE c = "0" -> 0 [] c = "1" -> 1 [] c = "2" -> 2 [] c = "3" -> 3
                   [] c = "4" -> 4 [] c = "5" -> 5 [] c = "6" -> 6 [] c = "7" -> 7
                   [] c = "8" -> 8 [] c = "9" -> 9]

UpperChars == "ABCDEFGHIJKLMNOPQRSTUVWXYZ"
LowerChars == "abcdefghijklmnopqrstuvwxyz"
Letters == 1..Len(UpperChars)

\* upper-case letter to lower-case letter, and back
ToLower == [c \in {Ch(UpperChars, i) : i \in Letters} |->
              Ch(LowerChars, CHOOSE i \in Letters : Ch(UpperChars, i) = c)]
ToUpper == [c \in {Ch(LowerChars, i) : i \in Letters} |->
              Ch(UpperChars, CHOOSE i \in Letters : Ch(LowerChars, i) = c)]

IsDigit(c) == c \in DOMAIN DigitValue

DigitVal(c) == DigitValue[c]

IsSpace(c) == c \in {" ", "\t", "\n", "\r"}

\* str.lower() of one character (re.IGNORECASE compares case-folded)
LowerCh(c) == IF c \in DOMAIN ToLower THEN ToLower[c] ELSE c

\* str.upper() of one character
UpperCh(c) == IF c \in DOMAIN ToUpper THEN ToUpper[c] ELSE c

RECURSIVE Upper(_)
Upper(s) == IF s = "" THEN "" ELSE UpperCh(Ch(s, 1)) \o Upper(Tail(s))

\* str.strip(): leading and trailing whitespace removed
RECURSIVE LStrip(_)
LStrip(s) == IF s # "" /\ IsSpace(Ch(s, 1)) THEN LStrip(Tail(s)) ELSE s

RECURSIVE RStrip(_)
RStrip(s) ==
    IF s # "" /\ IsSpace(Ch(s, Len(s))) THEN RStrip(SubSeq(s, 1, Len(s) - 1)) ELSE s

Strip(s) == RStrip(LStrip(s))

\* the length of the run of digits of s that starts at position i
RECURSIVE DigitRun(_, _)
DigitRun(s, i) ==
    IF i <= Len(s) /\ IsDigit(Ch(s, i)) THEN 1 + DigitRun(s, i + 1) ELSE 0

\* the value of the all-digit string s, most significant digit first
RECURSIVE DigitsValue(_, _)
DigitsValue(s, acc) ==
    IF s = "" THEN acc ELSE DigitsValue(Tail(s), 10 * acc + DigitVal(Ch(s, 1)))

(***************************************************************************)
(* int(text) and float(text) of Python, on the decimal literals a sweep    *)
(* tool prints: optional surrounding whitespace, an optional sign, digits, *)
(* and for float an optional fraction.  ValueError is [ok |-> FALSE].      *)
(***************************************************************************)
Unsigned(s) == IF s # "" /\ Ch(s, 1) \in {"+", "-"} THEN Tail(s) ELSE s

Sign(s) == IF s # "" /\ Ch(s, 1) = "-" THEN -1 ELSE 1

\* int(s): ValueError unless sign and digits only
PyInt(s) ==
    LET t == Strip(s)
        u == Unsigned(t)
    IN  IF u # "" /\ DigitRun(u, 1) = Len(u)
        THEN [ok |-> TRUE, val |-> Sign(t) * DigitsValue(u, 0)]
        ELSE [ok |-> FALSE]

\* the first two fraction digits of f, as hundredths
Hundredths(f) ==
    IF f = "" THEN 0
    ELSE IF Len(f) = 1 THEN 10 * DigitVal(Ch(f, 1))
    ELSE 10 * DigitVal(Ch(f, 1)) + DigitVal(Ch(f, 2))

\* a decimal literal taken apart: sign, digits, then optionally "." and digits
Decimal(s) ==
    LET t == Strip(s)
        u == Unsigned(t)
        n == DigitRun(u, 1)
        rest == SubSeq(u, n + 1, Len(u))
        frac == IF rest = "" THEN "" ELSE Tail(rest)
    IN  [wellformed |-> /\ u # ""
                        /\ \/ rest = "" /\ n > 0
                           \/ /\ rest # ""
                              /\ Ch(rest, 1) = "."
                              /\ DigitRun(frac, 1) = Len(frac)
                              /\ n + Len(frac) > 0,
         sign |-> Sign(t),
         whole |-> SubSeq(u, 1, n),
         frac |-> frac]

\* float(s), in 1/POWER_DEN
PyFloat(s) ==
    LET d == Decimal(s)
    IN  IF d.wellformed
        THEN [ok |-> TRUE,
              val |-> d.sign * (POWER_DEN * DigitsValue(d.whole, 0) + Hundredths(d.frac))]
        ELSE [ok |-> FALSE]

(***************************************************************************)
(* run_scan: from the captured output to the observation.                  *)
(***************************************************************************)
ValueError == [raise |-> "ValueError"]

IsBlankLine(row) == row = <<>>

\* stdout.strip().split('\n'): blank lines at either end are stripped away
RECURSIVE DropLeadingBlank(_)
DropLeadingBlank(lines) ==
    IF lines # <<>> /\ IsBlankLine(Head(lines))
    THEN DropLeadingBlank(Tail(lines)) ELSE lines

RECURSIVE DropTrailingBlank(_)
DropTrailingBlank(lines) ==
    IF lines # <<>> /\ IsBlankLine(lines[Len(lines)])
    THEN DropTrailingBlank(SubSeq(lines, 1, Len(lines) - 1)) ELSE lines

SplitLines(stdout) == DropTrailingBlank(DropLeadingBlank(stdout))

\* the observation that both programs build from hz_low, hz_high, bin_width, dbm
Observation(hz_low, hz_high, bin_width, dbm) ==
    [frequency_mhz |-> hz_low + hz_high,     \* over FREQ_DEN
     power_db |-> dbm,                        \* over POWER_DEN
     bandwidth_hz |-> bin_width]

HasFields(row) == Len(row) > MIN_FIELDS

\* max(rows, key=float(r[6])): the first row whose key no other row exceeds
RECURSIVE MaxByPower(_, _)
MaxByPower(rows, best) ==
    IF rows = <<>> THEN best
    ELSE IF PyFloat(Head(rows)[POWER_FIELD]).val > PyFloat(best[POWER_FIELD]).val
         THEN MaxByPower(Tail(rows), Head(rows))
         ELSE MaxByPower(Tail(rows), best)

\* app.py, run_scan lines 87-108; ValueError is not caught there
ParseSweepApp(stdout) ==
    LET lines == SplitLines(stdout)
        rows == SelectSeq(Tail(lines), HasFields)
        strongest_signal == MaxByPower(Tail(rows), Head(rows))
        lo == PyInt(strongest_signal[LOW_FIELD])
        hi == PyInt(strongest_signal[HIGH_FIELD])
        bw == PyInt(strongest_signal[WIDTH_FIELD])
        dbm == PyFloat(strongest_signal[POWER_FIELD])
    IN  IF Len(lines) < 2 THEN None
        ELSE IF \E i \in 1..Len(rows) : ~PyFloat(rows[i][POWER_FIELD]).ok
             THEN ValueError
        ELSE IF rows = <<>> THEN None
        ELSE IF ~lo.ok \/ ~hi.ok \/ ~bw.ok THEN ValueError
        ELSE Observation(lo.val, hi.val, bw.val, dbm.val)

\* rf_analyzer.py, the body of the for loop, lines 92-106
ScanRowCli(row, st) ==
    LET dbm == IF Len(row) >= POWER_FIELD THEN PyFloat(row[POWER_FIELD]) ELSE [ok |-> FALSE]
        lo == PyInt(row[LOW_FIELD])
        hi == PyInt(row[HIGH_FIELD])
        bw == PyInt(row[WIDTH_FIELD])
    IN  IF ~dbm.ok THEN st                              \* IndexError, ValueError
        ELSE IF ~(dbm.val > st.max_power) THEN st
        ELSE IF ~lo.ok \/ ~hi.ok \/ ~bw.ok
             THEN [st EXCEPT !.max_power = dbm.val]      \* assigned before int() raised
        ELSE [max_power |-> dbm.val,
              strongest_signal |-> Observation(lo.val, hi.val, bw.val, dbm.val)]

RECURSIVE ScanRowsCli(_, _)
ScanRowsCli(rows, st) ==
    IF rows = <<>> THEN st ELSE ScanRowsCli(Tail(rows), ScanRowCli(Head(rows), st))

\* rf_analyzer.py, run_scan lines 80-112
ParseSweepCli(stdout) ==
    LET lines == SplitLines(stdout)
    IN  IF Len(lines) < 2 THEN None
        ELSE ScanRowsCli(Tail(lines),
                         [max_power |-> MAX_POWER_INIT,
                          strongest_signal |-> None]).strongest_signal

ParseSweep(v, stdout) ==
    IF v = "app" THEN ParseSweepApp(stdout) ELSE ParseSweepCli(stdout)

(***************************************************************************)
(* The sweep outputs explored.                                             *)
(***************************************************************************)
HeaderLine == <<"header">>

Row(lo, hi, bw, dbm) == <<"2024-01-01", "00:00:00", lo, hi, bw, "131072", dbm>>

RowSpec      == Row("100000000", "100100000", "100000", "-20.5")
RowTie       == Row("200000000", "200100000", "100000", "-20.5")
RowWeak      == Row("300000000", "300100000", "100000", "-64.72")
RowFloor     == Row("150000000", "150100000", "100000", "-1000.0")
RowBadPower  == Row("250000000", "250100000", "100000", "abc")
RowBadFreq   == Row("abc", "350100000", "100000", "-10.0")
RowDecWidth  == Row("120000000", "120100000", "100000.00", "-15.0")
RowShort     == <<"2024-01-01", "00:00:00", "100000000">>
RowBlank     == <<>>

DataRows == {RowSpec, RowTie, RowWeak, RowFloor, RowBadPower, RowBadFreq,
             RowDecWidth, RowShort, RowBlank}

RECURSIVE RowSeqs(_)
RowSeqs(n) ==
    IF n = 0 THEN {<<>>}
    ELSE LET shorter == RowSeqs(n - 1)
         IN  shorter \cup {Append(s, r) : s \in {t \in shorter : Len(t) = n - 1}, r \in DataRows}

Stdouts == {<<>>} \cup {<<HeaderLine>> \o rows : rows \in RowSeqs(MaxRows)}

(***************************************************************************)
(* _query_ollama and analyze_with_ollama.                                  *)
(***************************************************************************)
ANALYSIS_FAILED == "Analysis failed."
NO_SUGGESTIONS == "No suggestions."
DECODED == "DECODING_REQUIRES_SPECIFIC_TOOLING"
UNKNOWN == "Unknown"

RequestFailed == [ok |-> FALSE]

Reply(text) == [ok |-> TRUE, response |-> text]

\* a bug: the "response" returned without .strip()
QueryOllamaUnstripped(outcome) ==
    IF outcome.ok THEN [text |-> outcome.response] ELSE None

\* _query_ollama: the stripped "response", None on a RequestException
QueryOllama(outcome) ==
    IF outcome.ok THEN [text |-> Strip(outcome.response)] ELSE None

\* a bug: the result of a failed request is used as it is, without the fallback
OrFallbackMissing(result, fallback) ==
    IF result = None THEN ""
    ELSE IF result.text = "" THEN fallback
    ELSE result.text

\* `result or fallback`: None and the empty string are falsy
OrFallback(result, fallback) ==
    IF result = None THEN fallback
    ELSE IF result.text = "" THEN fallback
    ELSE result.text

(***************************************************************************)
(* _extract_modulation:                                                    *)
(* re.search(r'\b(FM|NFM|WFM|AM|SSB|LSB|USB|FSK|PSK|QAM)\b', d, re.I)      *)
(***************************************************************************)
ModulationTokens == <<"FM", "NFM", "WFM", "AM", "SSB", "LSB", "USB", "FSK", "PSK", "QAM">>

\* \w
IsWordCh(c) == IsDigit(c) \/ c = "_" \/ c \in DOMAIN ToLower \/ c \in DOMAIN ToUpper

\* \w at position i of s; outside the text there is none
WordAt(s, i) == i >= 1 /\ i <= Len(s) /\ IsWordCh(Ch(s, i))

\* \b between positions i - 1 and i
Boundary(s, i) == WordAt(s, i - 1) # WordAt(s, i)

\* s reads pat at position i, letter case ignored
FoldedAt(s, i, pat) ==
    /\ i + Len(pat) - 1 <= Len(s)
    /\ \A k \in 1..Len(pat) : LowerCh(Ch(s, i + k - 1)) = LowerCh(Ch(pat, k))

\* a bug: the pattern without its two \b
TokenAtUnbounded(s, i, tok) == FoldedAt(s, i, tok)

\* the token matches at position i, between two word boundaries
TokenAt(s, i, tok) ==
    /\ Boundary(s, i)
    /\ FoldedAt(s, i, tok)
    /\ Boundary(s, i + Len(tok))

\* the first alternative, from the k-th on, that matches at position i; 0 if none
RECURSIVE AlternativeAt(_, _, _)
AlternativeAt(s, i, k) ==
    IF k > Len(ModulationTokens) THEN 0
    ELSE IF TokenAt(s, i, ModulationTokens[k]) THEN k
    ELSE AlternativeAt(s, i, k + 1)

\* re.search: the leftmost position, from i on, where an alternative matches
RECURSIVE SearchModulation(_, _)
SearchModulation(s, i) ==
    IF i > Len(s) THEN [matched |-> FALSE]
    ELSE IF AlternativeAt(s, i, 1) > 0
         THEN [matched |-> TRUE,
               group |-> SubSeq(s, i, i + Len(ModulationTokens[AlternativeAt(s, i, 1)]) - 1)]
    ELSE SearchModulation(s, i + 1)

ExtractModulation(d) ==
    LET match == SearchModulation(d, 1)
    IN  IF match.matched THEN Upper(match.group) ELSE UNKNOWN

(***************************************************************************)
(* adjust_settings:                                                        *)
(* re.search(r'LNA gain (\d+)', s, re.I), re.search(r'VGA gain (\d+)', ..) *)
(***************************************************************************)
LnaPattern == "lna gain "
VgaPattern == "vga gain "

\* the pattern, then at least one digit, at position i
GainAt(s, i, pat) ==
    /\ i + Len(pat) <= Len(s)
    /\ FoldedAt(s, i, pat)
    /\ IsDigit(Ch(s, i + Len(pat)))

\* re.search from position i on: the leftmost match; group(1) is the run of digits
RECURSIVE SearchGainFrom(_, _, _)
SearchGainFrom(s, i, pat) ==
    IF i > Len(s) THEN [matched |-> FALSE]
    ELSE IF GainAt(s, i, pat)
         THEN [matched |-> TRUE,
               group |-> SubSeq(s, i + Len(pat), i + Len(pat) + DigitRun(s, i + Len(pat)) - 1)]
    ELSE SearchGainFrom(s, i + 1, pat)

SearchGain(s, pat) == SearchGainFrom(s, 1, pat)

Min(a, b) == IF a < b THEN a ELSE b
Max(a, b) == IF a > b THEN a ELSE b

\* a bug: the upper limit is not applied
ClampLowerOnly(n, upper) == Max(GAIN_MIN, n)

\* max(0, min(n, upper))
Clamp(n, upper) == Max(GAIN_MIN, Min(n, upper))

\* a bug: a text without the pattern resets the gain
AdjustedGainReset(s, pat, upper, old) ==
    LET m == SearchGain(s, pat)
    IN  IF m.matched THEN Clamp(PyInt(m.group).val, upper) ELSE GAIN_MIN

\* a bug: the pattern (-?\d+), which reads a negative number too
AdjustedGainSigned(s, pat, upper, old) ==
    LET m == SearchGain(s, pat)
        n == SearchGain(s, pat \o "-")
    IN  IF m.matched THEN Clamp(PyInt(m.group).val, upper)
        ELSE IF n.matched THEN Clamp(-PyInt(n.group).val, upper)
        ELSE old

\* the gain after `if match: gain = max(0, min(int(match.group(1)), upper))`
AdjustedGain(s, pat, upper, old) ==
    LET m == SearchGain(s, pat)
    IN  IF m.matched THEN Clamp(PyInt(m.group).val, upper) ELSE old

(***************************************************************************)
(* What the collaborators may answer.                                      *)
(***************************************************************************)
NotFound == [kind |-> "notfound"]          \* Popen raises FileNotFoundError
SweepFailed == [kind |-> "failed"]         \* returncode != 0
Captured(stdout) == [kind |-> "ok", stdout |-> stdout]

AllSweeps == {NotFound, SweepFailed} \cup {Captured(o) : o \in Stdouts}

LoopStdouts == {<<>>, <<HeaderLine>>, <<HeaderLine, RowSpec>>,
                <<HeaderLine, RowShort>>, <<HeaderLine, RowBadPower>>}

LoopSweeps == {NotFound, SweepFailed} \cup {Captured(o) : o \in LoopStdouts}

DescriptionReplies == {"likely an NFM voice channel", "unclear signal type", ""}

SuggestionReplies == {"New settings: LNA gain 55, VGA gain -3",
                      "New settings: LNA gain 24, VGA gain 30",
                      "vga GAIN 63",
                      "  "}

DescriptionOutcomes == {RequestFailed} \cup {Reply(t) : t \in DescriptionReplies}
SuggestionOutcomes == {RequestFailed} \cup {Reply(t) : t \in SuggestionReplies}

(***************************************************************************)
(* The loop: app.py start_analysis_loop, rf_analyzer.py start.             *)
(***************************************************************************)
Finished == {"STOPPED", "CRASHED"}

\* datetime.now(): a logical clock that advances with sweeps and delays
Now == Len(commands) + delays

\* f"{x:.3f}" of a frequency: thousandths of a MHz, rounded
Format3(frequency_mhz) == (2 * frequency_mhz + FREQ_DEN \div 1000) \div (2 * (FREQ_DEN \div 1000))

\* no client is connecting
HandlerIdle == [pc |-> "idle", lna_gain |-> None, vga_gain |-> None]

Init ==
    /\ variant \in {"app", "cli"}
    /\ pc = "IDLE"
    /\ mainpc = IF variant = "app" THEN "serving" ELSE "loop"
    /\ lna_gain = LNA_INIT
    /\ vga_gain = VGA_INIT
    /\ amp_enabled = FALSE
    /\ stop_event = FALSE
    /\ signal = None
    /\ description = ""
    /\ suggestions = ""
    /\ modulation = ""
    /\ decoded_data = ""
    /\ log = <<>>
    /\ events = <<>>
    /\ sweep = None
    /\ commands = <<>>
    /\ requests = <<>>
    /\ notfound = 0
    /\ delays = 0
    /\ stopreq = FALSE
    /\ handler = HandlerIdle
    /\ snapshots = <<>>

\* the thread (app.py) or the main program (rf_analyzer.py) enters the loop
Start ==
    /\ pc = "IDLE"
    /\ pc' = "LOOP"
    /\ UNCHANGED <<handler, snapshots, variant, mainpc, lna_gain, vga_gain, amp_enabled, stop_event,
                   signal, description, suggestions, modulation, decoded_data,
                   log, events, sweep, commands, requests, notfound, delays, stopreq>>

\* `while not self.stop_event.is_set():` (app.py), `while True:` (rf_analyzer.py)
LoopHead ==
    /\ pc = "LOOP"
    /\ (variant = "app" /\ stop_event) \/ Len(commands) < MaxSweeps
    /\ pc' = IF variant = "app" /\ stop_event THEN "STOPPED" ELSE "SCANNING"
    /\ sweep' = None
    /\ UNCHANGED <<handler, snapshots, variant, mainpc, lna_gain, vga_gain, amp_enabled, stop_event,
                   signal, description, suggestions, modulation, decoded_data,
                   log, events, commands, requests, notfound, delays, stopreq>>

\* a bug: the command built with the gains of __init__
CommandDefaults == [lna |-> LNA_INIT, vga |-> VGA_INIT, amp |-> amp_enabled]

\* the options -l, -g and -a of the sweep command
Command == [lna |-> lna_gain, vga |-> vga_gain, amp |-> amp_enabled]

\* what run_scan returns or raises on the outcome o of the sweep command
ScanResult(v, o) ==
    IF o.kind = "ok" THEN ParseSweep(v, o.stdout) ELSE None

\* run_scan, and the `if signal:` that follows it
RunScanWith(outcomes) ==
    /\ pc = "SCANNING"
    /\ \E o \in outcomes :
        LET r == ScanResult(variant, o)
        IN  /\ sweep' = o
            /\ commands' = Append(commands, Command)
            /\ notfound' = IF o.kind = "notfound" THEN notfound + 1 ELSE notfound
            /\ stop_event' = IF o.kind = "notfound" /\ variant = "app"
                             THEN TRUE ELSE stop_event
            /\ signal' = IF r = ValueError THEN signal ELSE r
            /\ pc' = IF r = ValueError THEN "CRASHED"
                     ELSE IF r = None THEN "WAITING"
                     ELSE "ANALYZING"
    /\ UNCHANGED <<handler, snapshots, variant, mainpc, lna_gain, vga_gain, amp_enabled,
                   description, suggestions, modulation, decoded_data,
                   log, events, requests, delays, stopreq>>

RunScan == RunScanWith(LoopSweeps)

\* analyze_with_ollama, the description prompt
AnalyzeDescription ==
    /\ pc = "ANALYZING"
    /\ \E o \in DescriptionOutcomes :
        /\ requests' = Append(requests, [prompt |-> "description",
                                         frequency_mhz |-> signal.frequency_mhz,
                                         power_db |-> signal.power_db,
                                         bandwidth_hz |-> signal.bandwidth_hz,
                                         outcome |-> o])
        /\ description' = OrFallback(QueryOllama(o), ANALYSIS_FAILED)
    /\ pc' = "SUGGESTING"
    /\ UNCHANGED <<handler, snapshots, variant, mainpc, lna_gain, vga_gain, amp_enabled, stop_event,
                   signal, suggestions, modulation, decoded_data,
                   log, events, sweep, commands, notfound, delays, stopreq>>

\* analyze_with_ollama, the suggestions prompt
AnalyzeSuggestions ==
    /\ pc = "SUGGESTING"
    /\ \E o \in SuggestionOutcomes :
        /\ requests' = Append(requests, [prompt |-> "suggestions",
                                         frequency_mhz |-> signal.frequency_mhz,
                                         power_db |-> signal.power_db,
                                         lna |-> lna_gain,
                                         vga |-> vga_gain,
                                         outcome |-> o])
        /\ suggestions' = OrFallback(QueryOllama(o), NO_SUGGESTIONS)
    /\ pc' = "EXTRACTING"
    /\ UNCHANGED <<handler, snapshots, variant, mainpc, lna_gain, vga_gain, amp_enabled, stop_event,
                   signal, description, modulation, decoded_data,
                   log, events, sweep, commands, notfound, delays, stopreq>>

\* _extract_modulation, then decode_signal
Extract ==
    /\ pc = "EXTRACTING"
    /\ modulation' = ExtractModulation(description)
    /\ decoded_data' = DECODED
    /\ pc' = "LOGGING"
    /\ UNCHANGED <<handler, snapshots, variant, mainpc, lna_gain, vga_gain, amp_enabled, stop_event,
                   signal, description, suggestions,
                   log, events, sweep, commands, requests, notfound, delays, stopreq>>

\* a bug: adjust_settings called before log_data, so that the record holds
\* the gains the suggestions produced
LogRecordAdjusted ==
    [timestamp |-> Now,
     frequency |-> Format3(signal.frequency_mhz),
     modulation |-> modulation,
     lna_gain |-> AdjustedGain(suggestions, LnaPattern, LNA_MAX, lna_gain),
     vga_gain |-> AdjustedGain(suggestions, VgaPattern, VGA_MAX, vga_gain),
     amp_enabled |-> amp_enabled,
     description |-> description,
     suggestions |-> suggestions,
     decoded_data |-> decoded_data]

LogRecord ==
    [timestamp |-> Now,
     frequency |-> Format3(signal.frequency_mhz),
     modulation |-> modulation,
     lna_gain |-> lna_gain,
     vga_gain |-> vga_gain,
     amp_enabled |-> amp_enabled,
     description |-> description,
     suggestions |-> suggestions,
     decoded_data |-> decoded_data]

\* a bug: the event built without the modulation that was extracted
NewSignalEventUnknown ==
    [timestamp |-> Now,
     frequency |-> Format3(signal.frequency_mhz),
     modulation |-> UNKNOWN,
     lna_gain |-> lna_gain,
     vga_gain |-> vga_gain,
     description |-> description,
     suggestions |-> suggestions]

NewSignalEvent ==
    [timestamp |-> Now,
     frequency |-> Format3(signal.frequency_mhz),
     modulation |-> modulation,
     lna_gain |-> lna_gain,
     vga_gain |-> vga_gain,
     description |-> description,
     suggestions |-> suggestions]

\* a bug: the log file opened with 'w', which truncates it
LogDataOverwrite ==
    /\ pc = "LOGGING"
    /\ log' = <<LogRecord>>
    /\ events' = IF variant = "app" THEN Append(events, NewSignalEvent) ELSE events
    /\ pc' = "ADJUSTING"
    /\ UNCHANGED <<handler, snapshots, variant, mainpc, lna_gain, vga_gain, amp_enabled, stop_event,
                   signal, description, suggestions, modulation, decoded_data,
                   sweep, commands, requests, notfound, delays, stopreq>>

\* log_data
LogData ==
    /\ pc = "LOGGING"
    /\ log' = Append(log, LogRecord)
    /\ events' = IF variant = "app" THEN Append(events, NewSignalEvent) ELSE events
    /\ pc' = "ADJUSTING"
    /\ UNCHANGED <<handler, snapshots, variant, mainpc, lna_gain, vga_gain, amp_enabled, stop_event,
                   signal, description, suggestions, modulation, decoded_data,
                   sweep, commands, requests, notfound, delays, stopreq>>

\* a bug: the amplifier switched on when the LNA gain reaches its limit
AdjustLnaAmplified ==
    /\ pc = "ADJUSTING"
    /\ lna_gain' = AdjustedGain(suggestions, LnaPattern, LNA_MAX, lna_gain)
    /\ amp_enabled' = (lna_gain' = LNA_MAX)
    /\ pc' = "ADJUSTING_VGA"
    /\ UNCHANGED <<handler, snapshots, variant, mainpc, vga_gain, stop_event,
                   signal, description, suggestions, modulation, decoded_data,
                   log, events, sweep, commands, requests, notfound, delays, stopreq>>

\* adjust_settings, `if lna_match:`
AdjustLna ==
    /\ pc = "ADJUSTING"
    /\ lna_gain' = AdjustedGain(suggestions, LnaPattern, LNA_MAX, lna_gain)
    /\ pc' = "ADJUSTING_VGA"
    /\ UNCHANGED <<handler, snapshots, variant, mainpc, vga_gain, amp_enabled, stop_event,
                   signal, description, suggestions, modulation, decoded_data,
                   log, events, sweep, commands, requests, notfound, delays, stopreq>>

\* adjust_settings, `if vga_match:`
AdjustVga ==
    /\ pc = "ADJUSTING_VGA"
    /\ vga_gain' = AdjustedGain(suggestions, VgaPattern, VGA_MAX, vga_gain)
    /\ pc' = "WAITING"
    /\ UNCHANGED <<handler, snapshots, variant, mainpc, lna_gain, amp_enabled, stop_event,
                   signal, description, suggestions, modulation, decoded_data,
                   log, events, sweep, commands, requests, notfound, delays, stopreq>>

\* a bug: a plain sleep, which the event does not end
WaitNeverCancelled == FALSE

\* the wait returns at once when the event is set (app.py)
WaitCancelled == variant = "app" /\ stop_event

\* stop_event.wait(10) or time.sleep(30) runs its full time
WaitTimeout ==
    /\ pc = "WAITING"
    /\ ~WaitCancelled
    /\ delays' = delays + 1
    /\ pc' = "LOOP"
    /\ UNCHANGED <<handler, snapshots, variant, mainpc, lna_gain, vga_gain, amp_enabled, stop_event,
                   signal, description, suggestions, modulation, decoded_data,
                   log, events, sweep, commands, requests, notfound, stopreq>>

\* stop_event.wait(10) returns early: the event is set
WaitInterrupted ==
    /\ pc = "WAITING"
    /\ WaitCancelled
    /\ pc' = "LOOP"
    /\ UNCHANGED <<handler, snapshots, variant, mainpc, lna_gain, vga_gain, amp_enabled, stop_event,
                   signal, description, suggestions, modulation, decoded_data,
                   log, events, sweep, commands, requests, notfound, delays, stopreq>>

\* rf_analyzer.py: `except KeyboardInterrupt:` around the whole loop
KeyboardInterrupt ==
    /\ variant = "cli"
    /\ pc \notin {"IDLE"} \cup Finished
    /\ stopreq' = TRUE
    /\ pc' = "STOPPED"
    /\ UNCHANGED <<handler, snapshots, variant, mainpc, lna_gain, vga_gain, amp_enabled, stop_event,
                   signal, description, suggestions, modulation, decoded_data,
                   log, events, sweep, commands, requests, notfound, delays>>

\* app.py: socketio.run returns
ServerReturns ==
    /\ variant = "app"
    /\ mainpc = "serving"
    /\ mainpc' = "stopping"
    /\ UNCHANGED <<handler, snapshots, variant, pc, lna_gain, vga_gain, amp_enabled, stop_event,
                   signal, description, suggestions, modulation, decoded_data,
                   log, events, sweep, commands, requests, notfound, delays, stopreq>>

\* app.py: stop_event.set()
MainSetStop ==
    /\ mainpc = "stopping"
    /\ stop_event' = TRUE
    /\ stopreq' = TRUE
    /\ mainpc' = "joining"
    /\ UNCHANGED <<handler, snapshots, variant, pc, lna_gain, vga_gain, amp_enabled,
                   signal, description, suggestions, modulation, decoded_data,
                   log, events, sweep, commands, requests, notfound, delays>>

\* app.py: analyzer_thread.join() returns once the thread has ended
MainJoin ==
    /\ mainpc = "joining"
    /\ pc \in Finished
    /\ mainpc' = "done"
    /\ UNCHANGED <<handler, snapshots, variant, pc, lna_gain, vga_gain, amp_enabled, stop_event,
                   signal, description, suggestions, modulation, decoded_data,
                   log, events, sweep, commands, requests, notfound, delays, stopreq>>

Next ==
    \/ Start
    \/ LoopHead
    \/ RunScan
    \/ AnalyzeDescription
    \/ AnalyzeSuggestions
    \/ Extract
    \/ LogData
    \/ AdjustLna
    \/ AdjustVga
    \/ WaitTimeout
    \/ WaitInterrupted
    \/ KeyboardInterrupt
    \/ ServerReturns
    \/ MainSetStop
    \/ MainJoin

Spec == Init /\ [][Next]_vars

\* the steps of the loop that wait for the scheduler, the sweep command, the
\* language model or the clock
LoopStep ==
    \/ Start
    \/ LoopHead
    \/ RunScan
    \/ AnalyzeDescription
    \/ AnalyzeSuggestions
    \/ LogData
    \/ WaitTimeout
    \/ WaitInterrupted

\* the positions of the loop whose step is a computation on the texts:
\* Extract, AdjustLna and AdjustVga are enabled exactly there and leave them
Computing == {"EXTRACTING", "ADJUSTING", "ADJUSTING_VGA"}

\* the loop thread is scheduled fairly, the sweep command and the requests
\* return, a computation ends (weak fairness of Extract, AdjustLna and
\* AdjustVga, written as its meaning: the loop does not stay at one of their
\* positions for ever), and the main thread goes on from stop_event.set() to
\* join(); the server may serve for ever and nobody has to press Ctrl-C
SpecFair ==
    /\ Spec
    /\ WF_vars(LoopStep)
    /\ []<>(pc \notin Computing)
    /\ WF_vars(MainSetStop)
    /\ WF_vars(MainJoin)

(***************************************************************************)
(* app.py with clients: handle_connect runs on a thread of the server and  *)
(* reads the analyzer's attributes one after the other while the loop      *)
(* thread runs.                                                            *)
(***************************************************************************)
\* a client connects: `if analyzer:`
HandleConnect ==
    /\ variant = "app"
    /\ mainpc = "serving"
    /\ handler.pc = "idle"
    /\ Len(snapshots) < MaxConnects
    /\ handler' = [handler EXCEPT !.pc = "lna_gain"]
    /\ UNCHANGED <<snapshots, variant, pc, mainpc, lna_gain, vga_gain, amp_enabled,
                   stop_event, signal, description, suggestions, modulation,
                   decoded_data, log, events, sweep, commands, requests, notfound,
                   delays, stopreq>>

\* 'lna_gain': analyzer.lna_gain
HandleConnectLna ==
    /\ handler.pc = "lna_gain"
    /\ handler' = [handler EXCEPT !.pc = "vga_gain", !.lna_gain = lna_gain]
    /\ UNCHANGED <<snapshots, variant, pc, mainpc, lna_gain, vga_gain, amp_enabled,
                   stop_event, signal, description, suggestions, modulation,
                   decoded_data, log, events, sweep, commands, requests, notfound,
                   delays, stopreq>>

\* 'vga_gain': analyzer.vga_gain
HandleConnectVga ==
    /\ handler.pc = "vga_gain"
    /\ handler' = [handler EXCEPT !.pc = "amp_enabled", !.vga_gain = vga_gain]
    /\ UNCHANGED <<snapshots, variant, pc, mainpc, lna_gain, vga_gain, amp_enabled,
                   stop_event, signal, description, suggestions, modulation,
                   decoded_data, log, events, sweep, commands, requests, notfound,
                   delays, stopreq>>

\* 'amp_enabled': analyzer.amp_enabled, then emit('state_update', initial_state)
HandleConnectEmit ==
    /\ handler.pc = "amp_enabled"
    /\ snapshots' = Append(snapshots, [lna_gain |-> handler.lna_gain,
                                       vga_gain |-> handler.vga_gain,
                                       amp_enabled |-> amp_enabled])
    /\ handler' = HandlerIdle
    /\ UNCHANGED <<variant, pc, mainpc, lna_gain, vga_gain, amp_enabled,
                   stop_event, signal, description, suggestions, modulation,
                   decoded_data, log, events, sweep, commands, requests, notfound,
                   delays, stopreq>>

ConnectNext ==
    \/ Next
    \/ HandleConnect
    \/ HandleConnectLna
    \/ HandleConnectVga
    \/ HandleConnectEmit

SpecConnect == Init /\ [][ConnectNext]_vars

(***************************************************************************)
(* run_scan alone, on every sweep output of Stdouts.                       *)
(***************************************************************************)
RunScanAll == RunScanWith(AllSweeps)

ScanNext ==
    \/ Start
    \/ LoopHead
    \/ RunScanAll

SpecScan == Init /\ [][ScanNext]_vars

(***************************************************************************)
(* adjust_settings alone, from any configuration and on any text put       *)
(* together from the fragments: the first cycle has logged and is about to *)
(* adjust.                                                                 *)
(***************************************************************************)
Fragments == {"LNA gain ", "vga GAIN ", "55", "0", "-3", "LNA gain 7, ", "VGA gain 63 "}

RECURSIVE FragmentTexts(_)
FragmentTexts(n) ==
    IF n = 0 THEN {""}
    ELSE LET shorter == FragmentTexts(n - 1)
         IN  shorter \cup {t \o f : t \in shorter, f \in Fragments}

AdjustReplies == FragmentTexts(MaxFragments) \cup SuggestionReplies

\* the first cycle so far: its sweep output, what both programs make of it, and
\* the modulation read from the description of a failed request
FirstStdout == <<HeaderLine, RowSpec>>
FirstSignal == ParseSweepCli(FirstStdout)
FirstModulation == ExtractModulation(ANALYSIS_FAILED)

StartLna == {GAIN_MIN, LNA_INIT, LNA_MAX}
StartVga == {GAIN_MIN, VGA_INIT, VGA_MAX}

InitAdjust ==
    /\ variant \in {"app", "cli"}
    /\ pc = "ADJUSTING"
    /\ mainpc = IF variant = "app" THEN "serving" ELSE "loop"
    /\ lna_gain \in StartLna
    /\ vga_gain \in StartVga
    /\ amp_enabled = FALSE
    /\ stop_event = FALSE
    /\ sweep = Captured(FirstStdout)
    /\ signal = FirstSignal
    /\ description = ANALYSIS_FAILED
    /\ \E t \in AdjustReplies :
        /\ suggestions = OrFallback(QueryOllama(Reply(t)), NO_SUGGESTIONS)
        /\ requests = <<[prompt |-> "description",
                         frequency_mhz |-> signal.frequency_mhz,
                         power_db |-> signal.power_db,
                         bandwidth_hz |-> signal.bandwidth_hz,
                         outcome |-> RequestFailed],
                        [prompt |-> "suggestions",
                         frequency_mhz |-> signal.frequency_mhz,
                         power_db |-> signal.power_db,
                         lna |-> lna_gain,
                         vga |-> vga_gain,
                         outcome |-> Reply(t)]>>
    /\ modulation = FirstModulation
    /\ decoded_data = DECODED
    /\ commands = <<[lna |-> lna_gain, vga |-> vga_gain, amp |-> amp_enabled]>>
    /\ notfound = 0
    /\ delays = 0
    /\ stopreq = FALSE
    /\ handler = HandlerIdle
    /\ snapshots = <<>>
    /\ log = <<LogRecord>>
    /\ events = IF variant = "app" THEN <<NewSignalEvent>> ELSE <<>>

AdjustNext ==
    \/ AdjustLna
    \/ AdjustVga

SpecAdjust == InitAdjust /\ [][AdjustNext]_vars

(***************************************************************************)
(* _extract_modulation alone, on any description put together from the     *)
(* pieces: the first cycle has its two answers and is about to extract.    *)
(***************************************************************************)
Pieces == {"FM", "nfm", "Wfm", "am", "QAM", "lsb", "fsk", "xam ", " ", "-", "_"}

RECURSIVE PieceTexts(_)
PieceTexts(n) ==
    IF n = 0 THEN {""}
    ELSE LET shorter == PieceTexts(n - 1)
         IN  shorter \cup {t \o f : t \in shorter, f \in Pieces}

ExtractReplies == PieceTexts(MaxFragments) \cup DescriptionReplies

InitExtract ==
    /\ variant \in {"app", "cli"}
    /\ pc = "EXTRACTING"
    /\ mainpc = IF variant = "app" THEN "serving" ELSE "loop"
    /\ lna_gain = LNA_INIT
    /\ vga_gain = VGA_INIT
    /\ amp_enabled = FALSE
    /\ stop_event = FALSE
    /\ sweep = Captured(FirstStdout)
    /\ signal = FirstSignal
    /\ suggestions = NO_SUGGESTIONS
    /\ \E o \in {Reply(t) : t \in ExtractReplies} \cup {RequestFailed} :
        /\ description = OrFallback(QueryOllama(o), ANALYSIS_FAILED)
        /\ requests = <<[prompt |-> "description",
                         frequency_mhz |-> signal.frequency_mhz,
                         power_db |-> signal.power_db,
                         bandwidth_hz |-> signal.bandwidth_hz,
                         outcome |-> o],
                        [prompt |-> "suggestions",
                         frequency_mhz |-> signal.frequency_mhz,
                         power_db |-> signal.power_db,
                         lna |-> lna_gain,
                         vga |-> vga_gain,
                         outcome |-> RequestFailed]>>
    /\ modulation = ""
    /\ decoded_data = ""
    /\ commands = <<[lna |-> lna_gain, vga |-> vga_gain, amp |-> amp_enabled]>>
    /\ notfound = 0
    /\ delays = 0
    /\ stopreq = FALSE
    /\ handler = HandlerIdle
    /\ snapshots = <<>>
    /\ log = <<>>
    /\ events = <<>>

ExtractNext ==
    \/ Extract
    \/ LogData

SpecExtract == InitExtract /\ [][ExtractNext]_vars

(***************************************************************************)
(* What the claims say about a sweep output.                               *)
(***************************************************************************)
Numeric(f) == Decimal(f).wellformed

\* the integer a numeric field stands for, its fraction dropped
Whole(f) == Decimal(f).sign * DigitsValue(Decimal(f).whole, 0)

WellFormed(row) ==
    /\ Len(row) >= POWER_FIELD
    /\ Numeric(row[LOW_FIELD])
    /\ Numeric(row[HIGH_FIELD])
    /\ Numeric(row[WIDTH_FIELD])
    /\ Numeric(row[POWER_FIELD])

WellFormedRows(stdout) == SelectSeq(Tail(stdout), WellFormed)

\* the first of the well-formed rows of maximal power
StrongestWellFormed(stdout) ==
    LET rows == WellFormedRows(stdout)
        power(i) == PyFloat(rows[i][POWER_FIELD]).val
        best == CHOOSE i \in 1..Len(rows) :
                    /\ \A j \in 1..Len(rows) : power(j) <= power(i)
                    /\ \A j \in 1..(i - 1) : power(j) < power(i)
    IN  rows[best]

ObservationOf(row) ==
    [frequency_mhz |-> Whole(row[LOW_FIELD]) + Whole(row[HIGH_FIELD]),
     power_db |-> PyFloat(row[POWER_FIELD]).val,
     bandwidth_hz |-> Whole(row[WIDTH_FIELD])]

Scanned == sweep # None /\ sweep.kind = "ok" /\ sweep.stdout # <<>>

\* C1: for every sweep output of a header line and data rows of which at least
\* one is well-formed, run_scan returns the observation built from the first
\* well-formed row of maximal power: frequency the midpoint of its edges over
\* 10^6, power its power, bandwidth its bin width, whatever malformed rows
\* surround it and whatever the magnitude of the powers.
C1_StrongestWellFormedRow ==
    (Scanned /\ WellFormedRows(sweep.stdout) # <<>>)
        => /\ pc = "ANALYZING"
           /\ signal = ObservationOf(StrongestWellFormed(sweep.stdout))

Malformed(row) ==
    \/ Len(row) < POWER_FIELD
    \/ ~Numeric(row[POWER_FIELD])
    \/ ~Numeric(row[LOW_FIELD])
    \/ ~Numeric(row[HIGH_FIELD])

NotMalformed(row) == ~Malformed(row)

WithoutMalformed(stdout) == <<Head(stdout)>> \o SelectSeq(Tail(stdout), NotMalformed)

\* C2: a data row with fewer than 7 fields, or whose power or frequency fields
\* are not numeric, is silently excluded: no exception leaves run_scan, and the
\* scan gives what it gives on the same output without the malformed rows.
C2_MalformedRowsExcluded ==
    (Scanned /\ \E i \in 2..Len(sweep.stdout) : Malformed(sweep.stdout[i]))
        => /\ pc # "CRASHED"
           /\ ParseSweep(variant, sweep.stdout)
                = ParseSweep(variant, WithoutMalformed(sweep.stdout))

\* C3: once the sweep executable was not found, the sweep command is never
\* invoked again, no LogRecord is appended and no inter-cycle delay is waited
\* out.
C3_ToolUnavailableStopsLoop ==
    [][notfound >= 1 => /\ commands' = commands
                        /\ notfound' = notfound
                        /\ log' = log
                        /\ delays' = delays]_vars

\* C4: the loop ends only after a stop request or a ToolUnavailable failure;
\* no other condition of a cycle terminates it.
C4_EndsOnlyOnStopOrToolUnavailable ==
    pc \in Finished => (stopreq \/ notfound >= 1)

\* C5: in every reachable state of the loop the LNA gain is an integer in
\* [0, 40] and the VGA gain an integer in [0, 62].
C5_GainsInRange ==
    /\ lna_gain \in GAIN_MIN..LNA_MAX
    /\ vga_gain \in GAIN_MIN..VGA_MAX

\* C5 witness: both gains sit at their upper limits after a suggestion above it
C5_Witness ==
    /\ pc = "WAITING"
    /\ suggestions = "vga GAIN 63"
    /\ vga_gain = VGA_MAX
    /\ lna_gain = LNA_MAX

\* the text holds "<name> gain <digits>", letter case ignored
HasGain(s, pat) ==
    \E i \in 1..Len(s) :
        FoldedAt(s, i, pat) /\ i + Len(pat) <= Len(s) /\ IsDigit(Ch(s, i + Len(pat)))

\* the number that follows the first "<name> gain " that digits follow
GainValue(s, pat) ==
    LET i == CHOOSE j \in 1..Len(s) :
                /\ FoldedAt(s, j, pat) /\ j + Len(pat) <= Len(s)
                /\ IsDigit(Ch(s, j + Len(pat)))
                /\ \A h \in 1..(j - 1) :
                      ~(FoldedAt(s, h, pat) /\ h + Len(pat) <= Len(s)
                        /\ IsDigit(Ch(s, h + Len(pat))))
        d == i + Len(pat)
    IN  DigitsValue(SubSeq(s, d, d + DigitRun(s, d) - 1), 0)

\* min(max(n, 0), upper) when the pattern is there, the previous value otherwise
ExpectedGain(s, pat, upper, old) ==
    IF HasGain(s, pat) THEN Min(Max(GainValue(s, pat), GAIN_MIN), upper) ELSE old

\* C6: adjust_settings treats the two gains independently: a gain whose pattern
\* "<name> gain <digits>" is in the text becomes min(max(n, 0), upper), upper 40
\* for LNA and 62 for VGA; a gain whose pattern is absent keeps its value.
C6_GainsAdjustedIndependently ==
    [][/\ (pc = "ADJUSTING" /\ pc' = "ADJUSTING_VGA")
            => /\ lna_gain' = ExpectedGain(suggestions, LnaPattern, LNA_MAX, lna_gain)
               /\ vga_gain' = vga_gain
       /\ (pc = "ADJUSTING_VGA" /\ pc' = "WAITING")
            => /\ vga_gain' = ExpectedGain(suggestions, VgaPattern, VGA_MAX, vga_gain)
               /\ lna_gain' = lna_gain]_vars

\* C6 witness: a text with the LNA pattern only has moved the LNA gain to its
\* limit and left the VGA gain where it was
C6_Witness ==
    /\ pc = "WAITING"
    /\ suggestions = "LNA gain 55"
    /\ commands[1].lna = LNA_INIT
    /\ lna_gain = LNA_MAX
    /\ vga_gain = commands[1].vga

SpecText == "New settings: LNA gain 55, VGA gain -3"

\* C7 as stated: adjust_settings on "New settings: LNA gain 55, VGA gain -3"
\* yields LNA gain 40 and VGA gain 0, from any configuration.
C7_Original ==
    [][(pc = "ADJUSTING_VGA" /\ pc' = "WAITING" /\ suggestions = SpecText)
            => (lna_gain' = LNA_MAX /\ vga_gain' = GAIN_MIN)]_vars

\* C7 as amended: adjust_settings on "New settings: LNA gain 55, VGA gain -3"
\* yields LNA gain 40 and leaves the VGA gain as it was, from any configuration.
C7_Amended ==
    [][/\ (pc = "ADJUSTING" /\ pc' = "ADJUSTING_VGA" /\ suggestions = SpecText)
            => (lna_gain' = LNA_MAX /\ vga_gain' = vga_gain)
       /\ (pc = "ADJUSTING_VGA" /\ pc' = "WAITING" /\ suggestions = SpecText)
            => (lna_gain' = LNA_MAX /\ vga_gain' = vga_gain)]_vars

\* C7 witness: the text was applied to LNA 16, VGA 20 and left LNA 40, VGA 20
C7_Witness ==
    /\ pc = "WAITING"
    /\ suggestions = SpecText
    /\ commands[1].lna = LNA_INIT
    /\ commands[1].vga = VGA_INIT
    /\ lna_gain = LNA_MAX
    /\ vga_gain = VGA_INIT

\* the requests of the cycles that were analysed so far, and of the one under way
RequestsDue ==
    2 * Len(log) + (IF pc = "SUGGESTING" THEN 1
                    ELSE IF pc \in {"EXTRACTING", "LOGGING"} THEN 2
                    ELSE 0)

\* C8: failures of the two requests are isolated per prompt: after a failed
\* description request the suggestions request is still sent and the cycle is
\* logged with the description "Analysis failed."; after a failed suggestions
\* request the description obtained is kept and the suggestions are
\* "No suggestions.".
C8_FailuresIsolatedPerPrompt ==
    /\ pc # "STOPPED" => Len(requests) = RequestsDue
    /\ \A k \in 1..Len(log) :
        LET d == requests[2 * k - 1]
            g == requests[2 * k]
        IN  /\ d.prompt = "description"
            /\ g.prompt = "suggestions"
            /\ ~d.outcome.ok => log[k].description = "Analysis failed."
            /\ ~g.outcome.ok =>
                /\ log[k].suggestions = "No suggestions."
                /\ (d.outcome.ok /\ Strip(d.outcome.response) # "")
                        => log[k].description = Strip(d.outcome.response)

\* C8 witness: a cycle whose description request failed was logged with the
\* fallback and went on to adjust both gains from the suggestions it got
C8_Witness ==
    /\ pc = "WAITING"
    /\ Len(log) = 1
    /\ ~requests[1].outcome.ok
    /\ requests[2].outcome.ok
    /\ log[1].description = ANALYSIS_FAILED
    /\ log[1].suggestions = "New settings: LNA gain 24, VGA gain 30"
    /\ lna_gain # LNA_INIT
    /\ vga_gain # VGA_INIT

\* the scan gave no observation: nonzero exit, fewer than two lines, no valid row
NoObservation(o) ==
    \/ o.kind = "failed"
    \/ /\ o.kind = "ok"
       /\ \/ Len(SplitLines(o.stdout)) < 2
          \/ WellFormedRows(o.stdout) = <<>>

\* C9: a cycle whose scan yields no observation sends no language-model
\* request, appends no LogRecord, leaves both gains unchanged and goes directly
\* to WAITING.
C9_NoObservationSkipsCycle ==
    [][(commands' # commands /\ NoObservation(sweep'))
            => /\ pc' = "WAITING"
               /\ requests' = requests
               /\ log' = log
               /\ lna_gain' = lna_gain
               /\ vga_gain' = vga_gain]_vars

\* the steps of a cycle after its scan, each with the one that follows it
CycleOrder ==
    [ANALYZING |-> "SUGGESTING", SUGGESTING |-> "EXTRACTING", EXTRACTING |-> "LOGGING",
     LOGGING |-> "ADJUSTING", ADJUSTING |-> "ADJUSTING_VGA", ADJUSTING_VGA |-> "WAITING"]

C11_StopReachesStopped ==
    /\ stopreq ~> (pc = "STOPPED")
    /\ [][pc = "STOPPED" => (pc' = "STOPPED" /\ commands' = commands /\ log' = log)]_vars
    /\ (mainpc = "joining") ~> (mainpc = "done")

\* the cycles so far in which run_scan returned an observation: each of them
\* sends the description prompt at once, except the one that has just scanned
Observed ==
    Cardinality({i \in 1..Len(requests) : requests[i].prompt = "description"})
        + (IF pc = "ANALYZING" THEN 1 ELSE 0)

\* the cycle under way has an observation and has not yet logged it
Unlogged == IF pc \in {"ANALYZING", "SUGGESTING", "EXTRACTING", "LOGGING"} THEN 1 ELSE 0

\* C12: the log holds one record per cycle that produced an observation and
\* got as far as log_data (a cycle cut by Ctrl-C before log_data leaves none),
\* every change of the log appends one record behind the unchanged earlier
\* ones, and only log_data changes it.
C12_LogAppendOnly ==
    /\ [](IF variant = "cli" /\ pc = "STOPPED"
          THEN Len(log) \in {Observed - 1, Observed}
          ELSE Len(log) = Observed - Unlogged)
    /\ [][log' # log => /\ pc = "LOGGING"
                        /\ Len(log') = Len(log) + 1
                        /\ SubSeq(log', 1, Len(log)) = log]_vars

\* C12 witness: a second record was appended behind the first one
C12_Witness ==
    /\ Len(log) = 2
    /\ pc = "ADJUSTING"
    /\ log[1].timestamp < log[2].timestamp

\* the tokens, as the claim lists them
ClaimTokens == {"FM", "NFM", "WFM", "AM", "SSB", "LSB", "USB", "FSK", "PSK", "QAM"}

\* the text reads token t at position i, letter case ignored, as a whole word:
\* no letter, digit or underscore stands right before or right after it
Occurs(s, i, t) ==
    /\ i + Len(t) - 1 <= Len(s)
    /\ Upper(SubSeq(s, i, i + Len(t) - 1)) = t
    /\ i = 1 \/ ~IsWordCh(Ch(s, i - 1))
    /\ i + Len(t) > Len(s) \/ ~IsWordCh(Ch(s, i + Len(t)))

Occurrences(s) == {o \in (1..Len(s)) \X ClaimTokens : Occurs(s, o[1], o[2])}

\* the token of the first whole-word occurrence, "Unknown" without one
ExpectedModulation(s) ==
    IF Occurrences(s) = {} THEN "Unknown"
    ELSE (CHOOSE o \in Occurrences(s) : \A q \in Occurrences(s) : o[1] <= q[1])[2]

\* C13: _extract_modulation returns the upper-cased token of the first
\* whole-word, case-insensitive occurrence of one of the ten tokens in the
\* description and "Unknown" when there is none; a record whose description
\* is "Analysis failed." has the modulation "Unknown".
C13_ModulationIsFirstToken ==
    /\ pc \in {"LOGGING", "ADJUSTING"} => modulation = ExpectedModulation(description)
    /\ \A k \in 1..Len(log) :
        /\ log[k].modulation = ExpectedModulation(log[k].description)
        /\ log[k].description = "Analysis failed." => log[k].modulation = "Unknown"

\* C13 witness: a description with a token inside a longer word, then a token
\* as a whole word, was logged with the second one
C13_Witness ==
    /\ pc = "ADJUSTING"
    /\ Len(log) = 1
    /\ log[1].description = "xam nfm-"
    /\ log[1].modulation = "NFM"

\* C13 witness: the description of a failed request was logged as "Unknown"
C13_WitnessFallback ==
    /\ pc = "ADJUSTING"
    /\ Len(log) = 1
    /\ log[1].description = "Analysis failed."
    /\ log[1].modulation = "Unknown"

\* the fields of a LogRecord, as the claim lists them
RecordFields ==
    {"timestamp", "frequency", "modulation", "lna_gain", "vga_gain", "amp_enabled",
     "description", "suggestions", "decoded_data"}

\* the fields the "new signal" event has
EventFields ==
    {"timestamp", "frequency", "modulation", "lna_gain", "vga_gain",
     "description", "suggestions"}

\* C14 as stated: the web-served loop emits one "new signal" event per
\* LogRecord, and the event carries all nine fields of the record with the
\* same values.
C14_Original ==
    variant = "app" =>
        /\ Len(events) = Len(log)
        /\ \A k \in 1..Len(log) :
            /\ DOMAIN log[k] = RecordFields
            /\ DOMAIN events[k] = RecordFields
            /\ \A f \in RecordFields : events[k][f] = log[k][f]

\* C14 as amended: the web-served loop emits one "new signal" event per
\* LogRecord; the event carries seven of the record's nine fields (timestamp,
\* frequency, modulation, LNA gain, VGA gain, description, suggestions) with
\* the record's values, and neither the amplifier flag nor the decoded
\* placeholder.
C14_Amended ==
    variant = "app" =>
        /\ Len(events) = Len(log)
        /\ \A k \in 1..Len(log) :
            /\ DOMAIN log[k] = RecordFields
            /\ DOMAIN events[k] = EventFields
            /\ \A f \in EventFields : events[k][f] = log[k][f]

\* C14 witness: the web-served loop has logged two cycles, the first with a
\* modulation found and with gains that the second no longer has
C14_Witness ==
    /\ variant = "app"
    /\ Len(log) = 2
    /\ Len(events) = 2
    /\ log[1].modulation = "NFM"
    /\ log[1].lna_gain # log[2].lna_gain

\* the last sweep command and the last record
LastCommand == commands[Len(commands)]
LastRecord == log[Len(log)]

\* C15: log_data runs before adjust_settings: the record a cycle appends
\* holds the gains of that cycle's sweep command, the gains change only once
\* that record is in the log, and changing them leaves the record alone.
C15_LoggedGainsAreSweepGains ==
    /\ [][log' # log => /\ log'[Len(log')].lna_gain = LastCommand.lna
                        /\ log'[Len(log')].vga_gain = LastCommand.vga
                        /\ lna_gain = LastCommand.lna
                        /\ vga_gain = LastCommand.vga
                        /\ pc' = "ADJUSTING"]_vars
    /\ [][(lna_gain' # lna_gain \/ vga_gain' # vga_gain)
            => /\ pc \in {"ADJUSTING", "ADJUSTING_VGA"}
               /\ log' = log
               /\ Len(log) >= 1
               /\ LastRecord.lna_gain = LastCommand.lna
               /\ LastRecord.vga_gain = LastCommand.vga
               /\ LastRecord.suggestions = suggestions]_vars

\* C15 witness: a cycle swept and was logged with LNA 16, VGA 20, and its
\* suggestions then changed both gains
C15_Witness ==
    /\ pc = "WAITING"
    /\ Len(log) = 1
    /\ Len(commands) = 1
    /\ LastRecord.lna_gain = LastCommand.lna
    /\ LastRecord.vga_gain = LastCommand.vga
    /\ lna_gain # LastRecord.lna_gain
    /\ vga_gain # LastRecord.vga_gain

\* C16: the sweep command of the next cycle is built from the configuration
\* the previous cycle left: for each gain the clamped number of that cycle's
\* suggestions when its pattern was in them, and the gain of that cycle's
\* own sweep otherwise (a cycle without an observation has no suggestions);
\* the suggestions prompt of a cycle names the gains of that cycle's sweep.
C16_NextSweepUsesAdjustedGains ==
    /\ [][(commands' # commands /\ Len(commands) >= 1)
            => /\ Len(commands') = Len(commands) + 1
               /\ commands'[Len(commands')].lna =
                      IF signal # None
                      THEN ExpectedGain(suggestions, LnaPattern, LNA_MAX, LastCommand.lna)
                      ELSE LastCommand.lna
               /\ commands'[Len(commands')].vga =
                      IF signal # None
                      THEN ExpectedGain(suggestions, VgaPattern, VGA_MAX, LastCommand.vga)
                      ELSE LastCommand.vga]_vars
    /\ [][(requests' # requests /\ pc = "SUGGESTING")
            => /\ requests'[Len(requests')].prompt = "suggestions"
               /\ requests'[Len(requests')].lna = LastCommand.lna
               /\ requests'[Len(requests')].vga = LastCommand.vga]_vars

\* C16 witness: the first cycle swept with LNA 16, VGA 20 and was told "LNA
\* gain 55, VGA gain -3"; the second sweep ran with LNA 40 and VGA 20
C16_Witness ==
    /\ Len(commands) = 2
    /\ Len(log) >= 1
    /\ log[1].suggestions = SpecText
    /\ commands[1] = [lna |-> LNA_INIT, vga |-> VGA_INIT, amp |-> FALSE]
    /\ commands[2] = [lna |-> LNA_MAX, vga |-> VGA_INIT, amp |-> FALSE]

\* C17: the gains change only in the two steps of adjust_settings, and no
\* step of the handler goes with a change; nothing writes the amplifier flag:
\* it is false in every state and in every sweep command.
C17_ConfigurationWrittenOnlyByAdjust ==
    /\ [](amp_enabled = FALSE)
    /\ [](\A k \in 1..Len(commands) : commands[k].amp = FALSE)
    /\ [][amp_enabled' = amp_enabled]_vars
    /\ [][lna_gain' # lna_gain
            => (pc = "ADJUSTING" /\ pc' = "ADJUSTING_VGA" /\ vga_gain' = vga_gain
                /\ handler' = handler /\ snapshots' = snapshots)]_vars
    /\ [][vga_gain' # vga_gain
            => (pc = "ADJUSTING_VGA" /\ pc' = "WAITING" /\ lna_gain' = lna_gain
                /\ handler' = handler /\ snapshots' = snapshots)]_vars

\* C17 witness: a cycle scanned, analysed, logged and adjusted both gains, a
\* client connected, and a second sweep has started, without the amplifier
C17_Witness ==
    /\ Len(commands) = 2
    /\ Len(log) >= 1
    /\ Len(snapshots) = 1
    /\ lna_gain # LNA_INIT
    /\ vga_gain # VGA_INIT
    /\ ~amp_enabled
    /\ ~commands[2].amp

\* the configurations the loop has at a cycle boundary: the one of __init__,
\* the one of each sweep command, and the present one or, when
\* adjust_settings is half way through, the one it is about to leave
BoundaryConfigurations ==
    {<<LNA_INIT, VGA_INIT>>}
        \cup {<<commands[k].lna, commands[k].vga>> : k \in 1..Len(commands)}
        \cup {<<lna_gain,
                IF pc = "ADJUSTING_VGA"
                THEN ExpectedGain(suggestions, VgaPattern, VGA_MAX, vga_gain)
                ELSE vga_gain>>}

\* C19: every state snapshot sent by the connect handler carries an (LNA gain,
\* VGA gain) pair that was the loop's whole configuration at a cycle boundary.
C19_SnapshotsAreBoundaryConfigurations ==
    \A k \in 1..Len(snapshots) :
        <<snapshots[k].lna_gain, snapshots[k].vga_gain>> \in BoundaryConfigurations

\* the reply is empty or only whitespace
Blank(t) == \A i \in 1..Len(t) : Ch(t, i) \in {" ", "\t", "\n", "\r"}

\* the request failed, or its reply is blank
NoAnswer(outcome) == IF outcome.ok THEN Blank(outcome.response) ELSE TRUE

\* C18: every record has a non-empty description and non-empty suggestions;
\* a blank reply gives the same fallback text as a failed request
\* ("Analysis failed." / "No suggestions."), and adjust_settings on "No
\* suggestions." changes neither gain.
C18_BlankReplyIsFallback ==
    /\ [](\A k \in 1..Len(log) :
            LET d == requests[2 * k - 1]
                g == requests[2 * k]
            IN  /\ log[k].description # ""
                /\ log[k].suggestions # ""
                /\ NoAnswer(d.outcome) => log[k].description = "Analysis failed."
                /\ NoAnswer(g.outcome) => log[k].suggestions = "No suggestions.")
    /\ [][(pc \in {"ADJUSTING", "ADJUSTING_VGA"} /\ suggestions = "No suggestions.")
            => (lna_gain' = lna_gain /\ vga_gain' = vga_gain)]_vars

\* C18 witness: both requests of a cycle succeeded with a blank reply; the
\* record holds the two fallback texts and the gains are those of the sweep
C18_Witness ==
    /\ pc = "WAITING"
    /\ Len(log) = 1
    /\ requests[1].outcome = Reply("")
    /\ requests[2].outcome = Reply("  ")
    /\ log[1].description = "Analysis failed."
    /\ log[1].suggestions = "No suggestions."
    /\ lna_gain = commands[1].lna
    /\ vga_gain = commands[1].vga

====
